---- MODULE Spec2Model ----
(***************************************************************************)
(* Model of src/src/model/model.py: the Image class (padding-aware tiling  *)
(* of an intensity grid into num_patches x num_patches Patch objects) and  *)
(* the Patch class (Otsu threshold, mask, overlay, circular region edits). *)
(*                                                                         *)
(* Representation.                                                         *)
(*   - A 2D numpy array is a record [shape |-> <<rows, cols>>, px |-> f]   *)
(*     with f a function on the 0-based coordinates <<r, c>>.              *)
(*   - An intensity is an integer level v in 0..MaxLevel standing for the  *)
(*     float v / MaxLevel that img_as_float yields for an 8-bit image.     *)
(*   - A threshold is an integer t standing for t / ThreshOne.             *)
(*   - A Python exception is the string naming its class; "none" means the *)
(*     call returned.                                                      *)
(***************************************************************************)
EXTENDS Integers, Sequences, FiniteSets

(***************************************************************************)
(* Bounds of the model.                                                    *)
(***************************************************************************)
MaxH == 23
MaxW == 3
MaxN == 5
MaxNeg == 2
MaxRadius == 2
MaxOps == 2

(***************************************************************************)
(* Constants of the program and of the library defaults it relies on.      *)
(***************************************************************************)
MaxLevel == 255
nbins == 256
alpha_num == 6
alpha_den == 10

ThreshOne == 2 * nbins * MaxLevel

VARIABLES image, num_patches, mask, patches, pc, raised,
          pad_x, pad_y, block_size, calls, prev, ref

vars == <<image, num_patches, mask, patches, pc, raised,
          pad_x, pad_y, block_size, calls, prev, ref>>

(***************************************************************************)
(* Python integer arithmetic: % takes the sign of the divisor, // floors.  *)
(* Both raise ZeroDivisionError on a zero divisor, which the callers test  *)
(* before using them.                                                      *)
(***************************************************************************)
Abs(a) == IF a < 0 THEN -a ELSE a

PyMod(a, b) == IF b > 0 THEN a % b ELSE -((-a) % (-b))

\* A division that drops the signs instead of flooring.
PyFloorDiv_unsigned(a, b) == Abs(a) \div Abs(b)

PyFloorDiv(a, b) == IF b > 0 THEN a \div b ELSE (-a) \div (-b)

(***************************************************************************)
(* numpy arrays.                                                           *)
(***************************************************************************)
Coords(shape) == (0 .. shape[1] - 1) \X (0 .. shape[2] - 1)

np_zeros(shape) == [shape |-> shape, px |-> [p \in Coords(shape) |-> FALSE]]

\* np.pad(image, (pad_x, pad_y), 'constant', constant_values=(0, 0)), for
\* non-negative pad widths: a new array, the old one in its top-left corner.
np_pad(img, px_, py_) ==
    LET shape == <<img.shape[1] + px_[1] + px_[2], img.shape[2] + py_[1] + py_[2]>>
    IN  [shape |-> shape,
         px |-> [p \in Coords(shape) |->
                   IF /\ p[1] - px_[1] \in 0 .. img.shape[1] - 1
                      /\ p[2] - py_[1] \in 0 .. img.shape[2] - 1
                   THEN img.px[<<p[1] - px_[1], p[2] - py_[1]>>]
                   ELSE 0]]

\* Blocks addressed with the row and column groups swapped.
view_as_blocks_swapped(img, bs, i, j) ==
    [shape |-> bs,
     px |-> [p \in Coords(bs) |-> img.px[<<j * bs[1] + p[1], i * bs[2] + p[2]>>]]]

\* blocks[i, j] of view_as_blocks(image, block_shape=bs).
view_as_blocks(img, bs, i, j) ==
    [shape |-> bs,
     px |-> [p \in Coords(bs) |-> img.px[<<i * bs[1] + p[1], j * bs[2] + p[2]>>]]]

(***************************************************************************)
(* skimage.filters.threshold_otsu(image, nbins=256), called at line 130.   *)
(*                                                                         *)
(* The image is binned into nbins equal bins over [min, max] (the last bin *)
(* closed on the right); for every split index k in 0..nbins-2 the         *)
(* between-class variance                                                  *)
(*     variance12[k] = weight1[k] * weight2[k+1] * (mean1[k]-mean2[k+1])^2 *)
(* is formed from the bin centres, idx is the FIRST index of its maximum   *)
(* and the result is bin_centers[idx] = min + (2*idx+1)*(max-min)/(2*nbins)*)
(* An image of one single value raises ValueError (scikit-image 0.16, the  *)
(* release of the time of the source, which still has skimage.draw.circle).*)
(*                                                                         *)
(* Exact rational arithmetic stands for the float64 arithmetic.  Two facts *)
(* keep the numbers small without changing the result:                     *)
(*   - variance12 is the same at k-1 and k when bin k is empty, so only    *)
(*     the indices of occupied bins are evaluated;                         *)
(*   - the argmax is unchanged when every bin centre is shifted and scaled *)
(*     by the same positive amounts, so the bin index stands for the       *)
(*     centre inside the variance.                                         *)
(***************************************************************************)
\* image.ravel(): the first n pixels in row-major order.
RECURSIVE Ravel(_, _)
Ravel(arr, n) ==
    IF n = 0 THEN <<>>
    ELSE Append(Ravel(arr, n - 1),
                arr.px[<<(n - 1) \div arr.shape[2], (n - 1) % arr.shape[2]>>])

\* min and max of the first i entries of a sequence (i >= 1).
RECURSIVE SeqMin(_, _)
SeqMin(s, i) ==
    IF i = 1 THEN s[1]
    ELSE LET m == SeqMin(s, i - 1) IN IF s[i] < m THEN s[i] ELSE m

RECURSIVE SeqMax(_, _)
SeqMax(s, i) ==
    IF i = 1 THEN s[1]
    ELSE LET m == SeqMax(s, i - 1) IN IF s[i] > m THEN s[i] ELSE m

\* The bin of np.histogram(image, bins=nbins) a value falls in.
HistogramBin(v, lo, hi) ==
    IF v = hi THEN nbins - 1 ELSE (nbins * (v - lo)) \div (hi - lo)

\* The bins of the first i pixels.
RECURSIVE BinSeq(_, _, _, _)
BinSeq(flat, lo, hi, i) ==
    IF i = 0 THEN <<>>
    ELSE Append(BinSeq(flat, lo, hi, i - 1), HistogramBin(flat[i], lo, hi))

\* Over the first i entries of the sequence of bin indices: how many are
\* <= k, and their sum.
RECURSIVE CountLow(_, _, _)
CountLow(bins, k, i) ==
    IF i = 0 THEN 0
    ELSE (IF bins[i] <= k THEN 1 ELSE 0) + CountLow(bins, k, i - 1)

RECURSIVE SumLow(_, _, _)
SumLow(bins, k, i) ==
    IF i = 0 THEN 0
    ELSE (IF bins[i] <= k THEN bins[i] ELSE 0) + SumLow(bins, k, i - 1)

\* weight1[k], weight2[k+1] and |mean1[k] - mean2[k+1]| * weight1 * weight2.
ClassStat(bins, k) ==
    LET w1 == CountLow(bins, k, Len(bins))
        w2 == Len(bins) - w1
        s1 == SumLow(bins, k, Len(bins))
        s2 == SumLow(bins, nbins, Len(bins)) - s1
    IN  [w1 |-> w1, w2 |-> w2, y |-> Abs(s1 * w2 - s2 * w1)]

\* a/b > c/d for a, c >= 0 and b, d > 0, by the Euclidean algorithm: no
\* cross product a*d, c*b is formed, so the numbers stay small.
RECURSIVE FracGreater(_, _, _, _)
FracGreater(a, b, c, d) ==
    LET qa == a \div b
        qc == c \div d
        ra == a % b
        rc == c % d
    IN  IF qa # qc THEN qa > qc
        ELSE IF ra = 0 THEN FALSE
        ELSE IF rc = 0 THEN TRUE
        ELSE FracGreater(d, rc, b, ra)

\* variance12 of s exceeds variance12 of t: with y = w1*w2*|mean1-mean2|,
\* variance12 = y^2 / (w1*w2).
VarianceGreater(s, t) ==
    IF s.y = 0 THEN FALSE
    ELSE IF t.y = 0 THEN TRUE
    ELSE FracGreater(s.y, t.y, t.y * (s.w1 * s.w2), s.y * (t.w1 * t.w2))

\* np.argmax(variance12) over the indices >= k: best is the first index of
\* the largest variance among the indices before k, bestStat its ClassStat.
\* The variance at the index of an empty bin equals the one before it, so
\* the scan steps from one occupied bin to the next.
RECURSIVE ArgMax(_, _, _, _, _)
ArgMax(bins, occupied, k, best, bestStat) ==
    LET rest == {b \in occupied : b >= k /\ b <= nbins - 2}
    IN  IF rest = {} THEN best
        ELSE LET j  == CHOOSE b \in rest : \A c \in rest : b <= c
                 st == ClassStat(bins, j)
             IN  IF VarianceGreater(st, bestStat)
                 THEN ArgMax(bins, occupied, j + 1, j, st)
                 ELSE ArgMax(bins, occupied, j + 1, best, bestStat)

threshold_otsu(arr) ==
    LET flat == Ravel(arr, arr.shape[1] * arr.shape[2])
        lo   == SeqMin(flat, Len(flat))
        hi   == SeqMax(flat, Len(flat))
    IN  IF lo = hi
        THEN [raised |-> "ValueError", value |-> 0]
        ELSE LET bins == BinSeq(flat, lo, hi, Len(flat))
                 occupied == {bins[q] : q \in 1 .. Len(bins)}
                 idx  == ArgMax(bins, occupied, 1, 0, ClassStat(bins, 0))
             IN  [raised |-> "none",
                  value  |-> 2 * nbins * lo + (2 * idx + 1) * (hi - lo)]

(***************************************************************************)
(* Patch.                                                                  *)
(***************************************************************************)
\* binary = self.patch > value
apply_threshold(arr, value) ==
    [shape |-> arr.shape,
     px |-> [p \in DOMAIN arr.px |-> 2 * nbins * arr.px[p] > value]]

\* np.rint(num / den) for num >= 0, den > 0: round half to even.
Rint(num, den) ==
    LET q == num \div den
        r == num % den
    IN  IF 2 * r < den THEN q
        ELSE IF 2 * r > den THEN q + 1
        ELSE IF q % 2 = 0 THEN q ELSE q + 1

\* One pixel of overlay_image.  The grey pixel (d, d, d) has HSV (0, 0, d);
\* the colour mask pixel (m, 0, 0) has HSV (0, m, m); the composed pixel has
\* HSV (0, alpha * m, d), which is RGB (d, d*(1 - alpha*m), d*(1 - alpha*m));
\* img_as_ubyte scales by 255, rounds and clips.
OverlayPixel(v, m) ==
    LET keep == IF m THEN alpha_den - alpha_num ELSE alpha_den
        gb   == Rint(v * keep, alpha_den)
    IN  <<Rint(v * alpha_den, alpha_den), gb, gb>>

overlay_mask(arr, msk) ==
    [p \in DOMAIN arr.px |-> OverlayPixel(arr.px[p], msk.px[p])]

\* Patch.__init__(patch, patch_index); raises what threshold_otsu raises.
Patch(arr, patch_index) ==
    LET t   == threshold_otsu(arr)
        msk == apply_threshold(arr, t.value)
    IN  IF t.raised # "none"
        THEN [raised |-> t.raised, obj |-> <<>>]
        ELSE [raised |-> "none",
              obj |-> [patch |-> arr,
                       mask |-> msk,
                       patch_index |-> patch_index,
                       thresh |-> t.value,
                       overlay_image |-> overlay_mask(arr, msk)]]

(***************************************************************************)
(* Image.create_patches(image, num_patches), lines 63-110.  The result     *)
(* records the exception raised ("none": the list was returned), the       *)
(* locals pad_x, pad_y and block_size as far as they were assigned, and    *)
(* the returned list.                                                      *)
(*                                                                         *)
(* "x % n is not 0" compares identities; CPython keeps one object for each *)
(* small integer, so it is x % n != 0 there.                               *)
(***************************************************************************)
NoPad == <<0, 0>>

Unassigned == <<>>

\* A padding that is added even when the size already divides evenly.
PadFor_always(size, n) == <<0, n - PyMod(size, n)>>

PadFor(size, n) ==
    IF PyMod(size, n) # 0 THEN <<0, n - PyMod(size, n)>> ELSE NoPad

create_patches(img, n) ==
    IF n = 0
    THEN \* line 79: image.shape[0] % 0
         [raised |-> "ZeroDivisionError", pad_x |-> NoPad, pad_y |-> NoPad,
          block_size |-> Unassigned, patches |-> <<>>]
    ELSE
    LET px_ == PadFor(img.shape[1], n)
        py_ == PadFor(img.shape[2], n)
        fail == [raised |-> "ValueError", pad_x |-> px_, pad_y |-> py_,
                 block_size |-> Unassigned, patches |-> <<>>]
    IN  IF px_[2] < 0 \/ py_[2] < 0
        THEN \* np.pad: "index can't contain negative values"
             fail
        ELSE
        LET padded == np_pad(img, px_, py_)
            bs == <<PyFloorDiv(padded.shape[1], n), PyFloorDiv(padded.shape[2], n)>>
        IN  IF bs[1] <= 0 \/ bs[2] <= 0
            THEN \* view_as_blocks: "'block_shape' elements must be strictly positive"
                 [fail EXCEPT !.block_size = bs]
            ELSE IF padded.shape[1] % bs[1] # 0 \/ padded.shape[2] % bs[2] # 0
            THEN \* view_as_blocks: "'block_shape' is not compatible with 'arr_in'"
                 [fail EXCEPT !.block_size = bs]
            ELSE
            \* for i in range(n): for j in range(n): the (i*n + j + 1)-th
            \* element of the list is Patch(blocks[i, j], (i, j)).
            LET count == IF n > 0 THEN n * n ELSE 0
                made == [q \in 1 .. count |->
                           Patch(view_as_blocks(padded, bs, (q - 1) \div n, (q - 1) % n),
                                 <<(q - 1) \div n, (q - 1) % n>>)]
            IN  IF \E q \in 1 .. count : made[q].raised # "none"
                THEN [fail EXCEPT !.block_size = bs]
                ELSE [raised |-> "none", pad_x |-> px_, pad_y |-> py_,
                      block_size |-> bs,
                      patches |-> [q \in 1 .. count |-> made[q].obj]]

(***************************************************************************)
(* skimage.draw.circle(r, c, radius), called without a shape: the pixels   *)
(* of the bounding box [r-radius, r+radius] x [c-radius, c+radius] with    *)
(* ((rr-r)/radius)^2 + ((cc-c)/radius)^2 < 1.  Nothing clips them to the   *)
(* array.  For radius 0 the quotient is nan and no pixel is returned.      *)
(***************************************************************************)
\* A disk that keeps the pixels at a distance of exactly radius.
circle_closed(r, c, radius) ==
    {<<r + dr, c + dc>> : <<dr, dc>> \in
        {d \in (-radius .. radius) \X (-radius .. radius) :
            d[1] * d[1] + d[2] * d[2] <= radius * radius}}

circle(r, c, radius) ==
    {<<r + dr, c + dc>> : <<dr, dc>> \in
        {d \in (-radius .. radius) \X (-radius .. radius) :
            d[1] * d[1] + d[2] * d[2] < radius * radius}}

\* numpy's index check: an index i of an axis of length n is valid when
\* -n <= i < n, and a negative one counts from the end.
IndexValid(i, n) == -n <= i /\ i < n

IndexWrap(i, n) == IF i < 0 THEN i + n ELSE i

\* arr[rr, cc] = value: IndexError, with nothing written, if any index is
\* out of range; otherwise every addressed element is written.
SetItems(arr, idx, value) ==
    IF \E q \in idx : ~IndexValid(q[1], arr.shape[1]) \/ ~IndexValid(q[2], arr.shape[2])
    THEN [raised |-> "IndexError", arr |-> arr]
    ELSE LET hit == {<<IndexWrap(q[1], arr.shape[1]), IndexWrap(q[2], arr.shape[2])>> :
                        q \in idx}
         IN  [raised |-> "none",
              arr |-> [arr EXCEPT !.px = [p \in DOMAIN arr.px |->
                                            IF p \in hit THEN value ELSE arr.px[p]]]]

\* An add_region that flips the pixels of the disk (mask[rr, cc] ^= 1).
add_region_flips(obj, position, radius) ==
    LET idx == circle(position[2], position[1], radius)
        w   == SetItems(obj.mask, idx, TRUE)
        hit == {<<IndexWrap(q[1], obj.mask.shape[1]), IndexWrap(q[2], obj.mask.shape[2])>> :
                   q \in idx}
        new == [obj.mask EXCEPT !.px = [p \in DOMAIN obj.mask.px |->
                   IF p \in hit THEN ~obj.mask.px[p] ELSE obj.mask.px[p]]]
    IN  IF w.raised # "none"
        THEN [raised |-> w.raised, obj |-> obj]
        ELSE [raised |-> "none",
              obj |-> [obj EXCEPT !.mask = new,
                                  !.overlay_image = overlay_mask(obj.patch, new)]]

\* An add_region that writes the disk into the data (self.patch[rr, cc] = 1).
add_region_into_patch(obj, position, radius) ==
    LET w == SetItems(obj.patch, circle(position[2], position[1], radius), MaxLevel)
    IN  IF w.raised # "none"
        THEN [raised |-> w.raised, obj |-> obj]
        ELSE [raised |-> "none",
              obj |-> [obj EXCEPT !.patch = w.arr,
                                  !.overlay_image = overlay_mask(w.arr, obj.mask)]]

\* add_region(position, radius): position is (x, y), and circle takes the
\* row position[1] first.  When the assignment raises, overlay_mask is not
\* reached.
add_region(obj, position, radius) ==
    LET w == SetItems(obj.mask, circle(position[2], position[1], radius), TRUE)
    IN  IF w.raised # "none"
        THEN [raised |-> w.raised, obj |-> obj]
        ELSE [raised |-> "none",
              obj |-> [obj EXCEPT !.mask = w.arr,
                                  !.overlay_image = overlay_mask(obj.patch, w.arr)]]

remove_region(obj, position, radius) ==
    LET w == SetItems(obj.mask, circle(position[2], position[1], radius), FALSE)
    IN  IF w.raised # "none"
        THEN [raised |-> w.raised, obj |-> obj]
        ELSE [raised |-> "none",
              obj |-> [obj EXCEPT !.mask = w.arr,
                                  !.overlay_image = overlay_mask(obj.patch, w.arr)]]

\* A clear_mask that resets the threshold and keeps the mask.
clear_mask_keeps_mask(obj) == [obj EXCEPT !.thresh = ThreshOne]

\* clear_mask(): a new all-False mask and thresh = 1; overlay_mask is not
\* called.
clear_mask(obj) ==
    [obj EXCEPT !.mask = np_zeros(obj.patch.shape), !.thresh = ThreshOne]

(***************************************************************************)
(* Inputs.  load_image (lines 45-61) hands the model a grey image of any   *)
(* shape; the model draws from three families of every shape within the    *)
(* bounds: a flat image, a two-level checkerboard, and a ramp whose pixels *)
(* all differ (and differ from the padding value 0).                       *)
(***************************************************************************)
PatternKinds == {"flat", "checker", "ramp"}

Pattern(kind, shape) ==
    [shape |-> shape,
     px |-> [p \in Coords(shape) |->
               CASE kind = "flat"    -> MaxLevel \div 2
                 [] kind = "checker" -> IF (p[1] + p[2]) % 2 = 0 THEN MaxLevel ELSE 0
                 [] OTHER            -> 1 + p[1] * shape[2] + p[2]]]

Grids ==
    {Pattern(kind, <<h, w>>) : kind \in PatternKinds, h \in 0 .. MaxH, w \in 0 .. MaxW}

\* The images the editing specification starts from, with the patch count
\* per axis of each (Image.__init__ fixes it to 10, line 40; create_patches
\* takes any).
SampleInputs ==
    {[image |-> Pattern("ramp", <<3, 3>>), num_patches |-> 1],
     [image |-> Pattern("ramp", <<2, 3>>), num_patches |-> 2]}

(***************************************************************************)
(* History.  calls is the log of the calls made (create_patches first),    *)
(* prev the Image's patches and mask as they were before the last call.    *)
(* ref[k] is the mask patch k would hold if every add_region and           *)
(* remove_region since its construction or its last clear_mask had written *)
(* exactly the pixels of its disk that lie inside the patch (the last call *)
(* wins at each pixel).                                                    *)
(***************************************************************************)
Call(op, k, position, radius) ==
    [op |-> op, k |-> k, position |-> position, radius |-> radius]

\* The pixels <<row, col>> of a patch of the given shape within the open
\* disk circle() draws around position = (x, y).
Disk(shape, position, radius) ==
    {p \in Coords(shape) :
        (p[2] - position[1]) * (p[2] - position[1])
      + (p[1] - position[2]) * (p[1] - position[2]) < radius * radius}

\* The same for the closed disk (px-x)^2 + (py-y)^2 <= radius^2; all is
\* the set of coordinates it is taken from.
ClosedDisk(all, position, radius) ==
    {p \in all :
        (p[2] - position[1]) * (p[2] - position[1])
      + (p[1] - position[2]) * (p[1] - position[2]) <= radius * radius}

LastWins(m, position, radius, value) ==
    [m EXCEPT !.px = [p \in DOMAIN m.px |->
                        IF p \in Disk(m.shape, position, radius) THEN value
                        ELSE m.px[p]]]

(***************************************************************************)
(* The state machine.                                                      *)
(***************************************************************************)
InitCommon ==
    /\ mask = np_zeros(<<0, 0>>)
    /\ patches = <<>>
    /\ pc = "new"
    /\ raised = "none"
    /\ pad_x = NoPad
    /\ pad_y = NoPad
    /\ block_size = Unassigned
    /\ calls = <<>>
    /\ prev = [patches |-> <<>>, mask |-> np_zeros(<<0, 0>>)]
    /\ ref = <<>>

Init ==
    /\ \E inp \in SampleInputs :
          /\ image = inp.image
          /\ num_patches = inp.num_patches
    /\ InitCommon

InitTiler ==
    /\ image \in Grids
    /\ num_patches \in (-MaxNeg) .. MaxN
    /\ InitCommon

\* Image.__init__, lines 40-43, for the loaded image: the full-size mask,
\* then create_patches.
CreatePatches ==
    /\ pc = "new"
    /\ LET res == create_patches(image, num_patches)
       IN  /\ mask' = np_zeros(image.shape)
           /\ patches' = res.patches
           /\ raised' = res.raised
           /\ pad_x' = res.pad_x
           /\ pad_y' = res.pad_y
           /\ block_size' = res.block_size
           /\ pc' = IF res.raised = "none" THEN "ready" ELSE "failed"
           /\ ref' = [q \in DOMAIN res.patches |-> res.patches[q].mask]
    /\ calls' = <<Call("create_patches", 0, <<0, 0>>, 0)>>
    /\ prev' = [patches |-> patches, mask |-> mask]
    /\ UNCHANGED <<image, num_patches>>

\* The centres (x, y) the edits are called with: the pixels of the patch
\* (0 <= x < width, 0 <= y < height), as a click on the shown patch gives.
Positions(obj) ==
    (0 .. obj.patch.shape[2] - 1) \X (0 .. obj.patch.shape[1] - 1)

AddRegion(k, position, radius) ==
    /\ pc = "ready"
    /\ Len(calls) <= MaxOps
    /\ LET res == add_region(patches[k], position, radius)
       IN  /\ patches' = [patches EXCEPT ![k] = res.obj]
           /\ raised' = res.raised
    /\ ref' = [ref EXCEPT ![k] = LastWins(ref[k], position, radius, TRUE)]
    /\ calls' = Append(calls, Call("add_region", k, position, radius))
    /\ prev' = [patches |-> patches, mask |-> mask]
    /\ UNCHANGED <<image, num_patches, mask, pc, pad_x, pad_y, block_size>>

RemoveRegion(k, position, radius) ==
    /\ pc = "ready"
    /\ Len(calls) <= MaxOps
    /\ LET res == remove_region(patches[k], position, radius)
       IN  /\ patches' = [patches EXCEPT ![k] = res.obj]
           /\ raised' = res.raised
    /\ ref' = [ref EXCEPT ![k] = LastWins(ref[k], position, radius, FALSE)]
    /\ calls' = Append(calls, Call("remove_region", k, position, radius))
    /\ prev' = [patches |-> patches, mask |-> mask]
    /\ UNCHANGED <<image, num_patches, mask, pc, pad_x, pad_y, block_size>>

ClearMask(k) ==
    /\ pc = "ready"
    /\ Len(calls) <= MaxOps
    /\ patches' = [patches EXCEPT ![k] = clear_mask(patches[k])]
    /\ raised' = "none"
    /\ ref' = [ref EXCEPT ![k] = np_zeros(patches[k].patch.shape)]
    /\ calls' = Append(calls, Call("clear_mask", k, <<0, 0>>, 0))
    /\ prev' = [patches |-> patches, mask |-> mask]
    /\ UNCHANGED <<image, num_patches, mask, pc, pad_x, pad_y, block_size>>

Next ==
    \/ CreatePatches
    \/ \E k \in DOMAIN patches :
          \E position \in Positions(patches[k]), radius \in 0 .. MaxRadius :
             AddRegion(k, position, radius)
    \/ \E k \in DOMAIN patches :
          \E position \in Positions(patches[k]), radius \in 0 .. MaxRadius :
             RemoveRegion(k, position, radius)
    \/ \E k \in DOMAIN patches : ClearMask(k)

Spec == Init /\ [][Next]_vars

NextTiler == CreatePatches

SpecTiler == InitTiler /\ [][NextTiler]_vars

(***************************************************************************)
(* Vocabulary of the properties.                                           *)
(***************************************************************************)
Last == calls[Len(calls)]

\* The last call was a region edit (add_region or remove_region).
AfterEdit ==
    /\ pc = "ready"
    /\ Len(calls) >= 2
    /\ Last.op \in {"add_region", "remove_region"}

\* The last call was clear_mask.
AfterClear ==
    /\ pc = "ready"
    /\ Len(calls) >= 2
    /\ Last.op = "clear_mask"

\* The value a region edit writes.
Written(call) == call.op = "add_region"

\* Every integer coordinate <<row, col>> of the closed disk of a call,
\* inside the patch or not.
FullClosedDisk(call) ==
    ClosedDisk((call.position[2] - call.radius .. call.position[2] + call.radius)
                 \X (call.position[1] - call.radius .. call.position[1] + call.radius),
               call.position, call.radius)

\* The closed disk of the call lies entirely inside a patch of that shape.
DiskInside(call, shape) == FullClosedDisk(call) \subseteq Coords(shape)

\* The overlay of a patch is the one its present mask and data give.
OverlayFresh(obj) == obj.overlay_image = overlay_mask(obj.patch, obj.mask)

(***************************************************************************)
(* C1.  After construction and any sequence of add_region, remove_region   *)
(* and clear_mask calls, the overlay of every patch equals the overlay     *)
(* computed from its current mask and data.                                *)
(* Fails: clear_mask replaces the mask and does not call overlay_mask.     *)
(***************************************************************************)
C1_OverlayAlwaysFresh ==
    pc = "ready" => \A k \in DOMAIN patches : OverlayFresh(patches[k])

(***************************************************************************)
(* C5.  Whatever the state of the patch, clear_mask leaves a mask of the   *)
(* shape of the data with every element false, and a threshold of 1.       *)
(***************************************************************************)
C5_ClearMask ==
    AfterClear =>
        LET obj == patches[Last.k]
        IN  /\ obj.mask.shape = obj.patch.shape
            /\ DOMAIN obj.mask.px = DOMAIN obj.patch.px
            /\ \A p \in DOMAIN obj.mask.px : obj.mask.px[p] = FALSE
            /\ obj.thresh = ThreshOne

\* clear_mask was called on a patch that an edit had left with a set pixel
\* and whose threshold was still the Otsu one.
C5_Witness ==
    /\ AfterClear
    /\ Len(calls) = 3
    /\ calls[2].op = "add_region"
    /\ calls[2].k = Last.k
    /\ \E p \in DOMAIN prev.patches[Last.k].mask.px : prev.patches[Last.k].mask.px[p]
    /\ prev.patches[Last.k].thresh # ThreshOne

(***************************************************************************)
(* C3 as stated.  For an in-bounds centre and a radius >= 0 whose disk     *)
(* lies entirely inside the patch, add_region leaves mask[py][px] true for *)
(* every pixel with (px-x)^2 + (py-y)^2 <= radius^2 (the boundary and, for *)
(* radius 0, the centre included), and remove_region leaves them false.    *)
(* Fails: circle() keeps the pixels at a distance strictly below radius.   *)
(***************************************************************************)
C3_ClosedDiskWritten ==
    (AfterEdit /\ DiskInside(Last, patches[Last.k].patch.shape)) =>
        \A p \in FullClosedDisk(Last) :
            patches[Last.k].mask.px[p] = Written(Last)

(***************************************************************************)
(* C3 amended.  Under the same condition add_region returns and leaves the *)
(* mask true at every pixel with (px-x)^2 + (py-y)^2 < radius^2, and       *)
(* remove_region leaves those pixels false; the pixels at a distance of    *)
(* exactly radius (the centre, when radius = 0) keep their value.          *)
(***************************************************************************)
C3_OpenDiskWritten ==
    (AfterEdit /\ DiskInside(Last, patches[Last.k].patch.shape)) =>
        LET obj == patches[Last.k]
            old == prev.patches[Last.k]
            in  == Disk(obj.patch.shape, Last.position, Last.radius)
        IN  /\ raised = "none"
            /\ \A p \in in : obj.mask.px[p] = Written(Last)
            /\ \A p \in FullClosedDisk(Last) \ in : obj.mask.px[p] = old.mask.px[p]

\* add_region with a disk of radius >= 1 inside the patch set a pixel that
\* was false.
C3_Witness ==
    /\ AfterEdit
    /\ Last.op = "add_region"
    /\ Last.radius >= 1
    /\ DiskInside(Last, patches[Last.k].patch.shape)
    /\ \E p \in DOMAIN patches[Last.k].mask.px :
          patches[Last.k].mask.px[p] /\ ~prev.patches[Last.k].mask.px[p]

(***************************************************************************)
(* C4.  When the centre is inside the patch and the disk extends past a    *)
(* patch edge, add_region and remove_region raise nothing and change no    *)
(* mask pixel outside the disk.                                            *)
(* Fails: circle() is called without the shape, so a too-large index       *)
(* raises IndexError and a negative one addresses the opposite side.       *)
(***************************************************************************)
C4_DiskClipped ==
    (AfterEdit /\ ~DiskInside(Last, patches[Last.k].patch.shape)) =>
        /\ raised = "none"
        /\ \A p \in DOMAIN patches[Last.k].mask.px :
              p \notin FullClosedDisk(Last) =>
                 patches[Last.k].mask.px[p] = prev.patches[Last.k].mask.px[p]

(***************************************************************************)
(* C8.  After any sequence of add_region and remove_region calls each mask *)
(* pixel holds the value of the last call whose disk covers it, and its    *)
(* value before the sequence if none does.  The disk is taken as circle()  *)
(* draws it, so that the statement does not rest on C3.                    *)
(* Fails with C4: a call that raises IndexError writes nothing of its      *)
(* disk, and a negative index writes a pixel no disk covers.               *)
(***************************************************************************)
C8_LastCallWins ==
    pc = "ready" => \A k \in DOMAIN patches : patches[k].mask = ref[k]

(***************************************************************************)
(* C9.  add_region and remove_region are idempotent: the same call made    *)
(* twice in a row leaves the patch (mask and overlay) as the first call    *)
(* left it, from any state.  The first conjunct reads it off the log; the  *)
(* second applies every call twice to every state in which the model goes  *)
(* on to make calls, and compares what is raised too.                      *)
(***************************************************************************)
C9_Idempotent ==
    pc = "ready" =>
        /\ (/\ Len(calls) >= 3
            /\ Last.op \in {"add_region", "remove_region"}
            /\ calls[Len(calls) - 1] = Last) => patches = prev.patches
        /\ Len(calls) <= MaxOps =>
              \A k \in DOMAIN patches :
                 \A position \in Positions(patches[k]), radius \in 0 .. MaxRadius :
                    LET a == add_region(patches[k], position, radius)
                        r == remove_region(patches[k], position, radius)
                    IN  /\ add_region(a.obj, position, radius) = a
                        /\ remove_region(r.obj, position, radius) = r

\* The same add_region was made twice in a row, it returned, and it wrote
\* more than one pixel.
C9_Witness ==
    /\ pc = "ready"
    /\ Len(calls) >= 3
    /\ Last.op = "add_region"
    /\ calls[Len(calls) - 1] = Last
    /\ Last.radius >= 2
    /\ raised = "none"

(***************************************************************************)
(* C10.  A region edit on one patch changes only the mask and the overlay  *)
(* of that patch: its data, index and threshold, every other patch of the  *)
(* Image and the Image's own mask are as before the call.                  *)
(***************************************************************************)
C10_EditFrame ==
    AfterEdit =>
        /\ DOMAIN patches = DOMAIN prev.patches
        /\ patches[Last.k].patch = prev.patches[Last.k].patch
        /\ patches[Last.k].patch_index = prev.patches[Last.k].patch_index
        /\ patches[Last.k].thresh = prev.patches[Last.k].thresh
        /\ \A j \in DOMAIN patches : j # Last.k => patches[j] = prev.patches[j]
        /\ mask = prev.mask

\* A region edit changed the mask of one of several patches.
C10_Witness ==
    /\ AfterEdit
    /\ Len(patches) >= 2
    /\ patches[Last.k].mask # prev.patches[Last.k].mask

(***************************************************************************)
(* The tiler.  H, W are the shape of the loaded image.                     *)
(***************************************************************************)
H == image.shape[1]

W == image.shape[2]

\* create_patches returned n*n patches in row-major order, all of one block
\* shape; the patch at list position i*n + j has index (i, j) and shows the
\* image at (i*blockH + y, j*blockW + x) wherever that lies in the image;
\* every pixel of the image is shown by exactly one patch pixel.
TilingHolds ==
    /\ raised = "none"
    /\ Len(patches) = num_patches * num_patches
    /\ LET bs == patches[1].patch.shape
       IN  /\ \A i, j \in 0 .. num_patches - 1 :
                 LET obj == patches[i * num_patches + j + 1]
                 IN  /\ obj.patch_index = <<i, j>>
                     /\ obj.patch.shape = bs
                     /\ DOMAIN obj.patch.px = Coords(bs)
                     /\ \A p \in Coords(bs) :
                           <<i * bs[1] + p[1], j * bs[2] + p[2]>> \in Coords(image.shape) =>
                              obj.patch.px[p] =
                                 image.px[<<i * bs[1] + p[1], j * bs[2] + p[2]>>]
           /\ \A g \in Coords(image.shape) :
                 Cardinality({t \in (1 .. Len(patches)) \X Coords(bs) :
                     /\ patches[t[1]].patch_index[1] * bs[1] + t[2][1] = g[1]
                     /\ patches[t[1]].patch_index[2] * bs[2] + t[2][2] = g[2]}) = 1

\* Every block of the image, padded with zeros to a multiple of n in each
\* dimension, holds at least two different values.
BlocksVaried ==
    LET n  == num_patches
        bh == (H + n - 1) \div n
        bw == (W + n - 1) \div n
        at(g) == IF g \in Coords(image.shape) THEN image.px[g] ELSE 0
    IN  \A i, j \in 0 .. n - 1 :
           \E p, q \in Coords(<<bh, bw>>) :
              at(<<i * bh + p[1], j * bw + p[2]>>) # at(<<i * bh + q[1], j * bw + q[2]>>)

(***************************************************************************)
(* C2 as stated.  For every grid of shape (H, W) with H >= 1, W >= 1 and   *)
(* every n >= 1, create_patches returns exactly n*n patches in row-major   *)
(* order, all of the same block shape, the patch at position i*n+j with    *)
(* index (i, j) and pixel (y, x) equal to the grid at (i*blockH + y,       *)
(* j*blockW + x) inside the grid; every grid pixel is in exactly one patch.*)
(* Fails: Patch.__init__ calls threshold_otsu, which raises ValueError on  *)
(* a block of one single value (a flat block, a block of padding, a block  *)
(* of one pixel), and create_patches then returns nothing.                 *)
(***************************************************************************)
C2_Tiling ==
    (pc # "new" /\ H >= 1 /\ W >= 1 /\ num_patches >= 1) => TilingHolds

(***************************************************************************)
(* C2 amended.  The same, for every grid and n such that each block of the *)
(* zero-padded grid holds at least two different values.                   *)
(***************************************************************************)
C2_TilingOfVariedBlocks ==
    (pc # "new" /\ H >= 1 /\ W >= 1 /\ num_patches >= 1 /\ BlocksVaried) => TilingHolds

\* An image padded in both dimensions was cut into several patches.
C2_Witness ==
    /\ pc = "ready"
    /\ num_patches >= 2
    /\ H >= 3
    /\ pad_x[2] > 0
    /\ pad_y[2] > 0
    /\ Len(patches) = num_patches * num_patches

(***************************************************************************)
(* C6 as stated.  create_patches fails with InvalidDimensionError, and     *)
(* returns no patch sequence, whenever n < 1 or H = 0 or W = 0.            *)
(* Fails: the program defines no such error; what is raised is Python's    *)
(* ZeroDivisionError (line 79, n = 0) or the library's ValueError.         *)
(***************************************************************************)
C6_InvalidDimensionError ==
    (pc # "new" /\ (num_patches < 1 \/ H = 0 \/ W = 0)) =>
        /\ raised = "InvalidDimensionError"
        /\ patches = <<>>

(***************************************************************************)
(* C6 amended.  Whenever n < 1 or H = 0 or W = 0, create_patches fails and *)
(* returns no patch sequence: with ZeroDivisionError when n = 0 and with   *)
(* ValueError otherwise.                                                   *)
(***************************************************************************)
C6_FailsOnBadDimension ==
    (pc # "new" /\ (num_patches < 1 \/ H = 0 \/ W = 0)) =>
        /\ pc = "failed"
        /\ raised = IF num_patches = 0 THEN "ZeroDivisionError" ELSE "ValueError"
        /\ patches = <<>>

\* create_patches failed on an empty image with a valid n.
C6_Witness ==
    /\ pc = "failed"
    /\ num_patches >= 1
    /\ H = 0
    /\ W >= 1
    /\ raised = "ValueError"

(***************************************************************************)
(* C7.  For every H >= 1 and n >= 1 the tiler adds 0 rows when H mod n = 0 *)
(* and n - (H mod n) rows at the end otherwise, so that the padded height  *)
(* is the smallest multiple of n that is >= H and blockH = paddedH / n is  *)
(* exact; the same for the columns with W.                                 *)
(***************************************************************************)
PaddingHolds(size, n, pad, block) ==
    /\ pad[1] = 0
    /\ pad[2] = IF size % n = 0 THEN 0 ELSE n - (size % n)
    /\ (size + pad[2]) % n = 0
    /\ size + pad[2] >= size
    /\ size + pad[2] - n < size
    /\ block * n = size + pad[2]

C7_Padding ==
    (pc # "new" /\ num_patches >= 1) =>
        /\ H >= 1 => PaddingHolds(H, num_patches, pad_x, block_size[1])
        /\ W >= 1 => PaddingHolds(W, num_patches, pad_y, block_size[2])

\* The example of the specification: H = 23, n = 5 pads 2 rows to 25, with
\* blocks of 5 rows; the columns needed padding too.
C7_Witness ==
    /\ pc # "new"
    /\ H = 23
    /\ num_patches = 5
    /\ pad_x = <<0, 2>>
    /\ block_size[1] = 5
    /\ W >= 1
    /\ pad_y[2] > 0

====
